---- MODULE Spec2Model ----
(***************************************************************************)
(* Model of plugins/filesoftlink/__init__.py: the FileSoftLink plugin,     *)
(* which mirrors source directory trees into destination trees by         *)
(* symbolic links or copies, driven by watchdog observers and by a full   *)
(* resync.                                                                 *)
(*                                                                         *)
(* Python strings are sequences of one-character strings.  A Python value *)
(* that the code passes around as "a path" is a record [t, s]: t is its  *)
(* run-time type ("str", "Path" or "None") and s its text, because the    *)
(* code's behaviour depends on that type (str has no .exists(), and      *)
(* `Path in str` raises TypeError).                                        *)
(***************************************************************************)
EXTENDS Integers, Sequences, FiniteSets, TLC

VARIABLES
    enabled,            \* self._enabled
    onlyonce,           \* self._onlyonce
    copy_files,         \* self._copy_files
    mode,               \* self._mode
    monitor_dirs,       \* self._monitor_dirs
    exclude_keywords,   \* self._exclude_keywords
    size,               \* self._size
    dirconf,            \* self._dirconf: insertion-ordered dict, a sequence of [key, val]
    scheduler,          \* self._scheduler: "none", or the state of the scheduler object
    jobs,               \* the pending jobs of self._scheduler
    observer,           \* self._observer: the list of the observers, by identity
    threads,            \* the observer objects alive: identity -> observer and its thread
    lock,               \* the module-level lock: 0 when free, else the holder's identity
    saved,              \* the configuration last persisted by update_config
    fs,                 \* the filesystem: path -> node
    main,               \* the framework's last call into the plugin and how it ended
    sync,               \* the threads that may run sync_all: "job" and "remote"
    msgs                \* what the last step put on self.systemmessage

confVars == <<enabled, onlyonce, copy_files, mode, monitor_dirs, exclude_keywords, size>>
vars == <<enabled, onlyonce, copy_files, mode, monitor_dirs, exclude_keywords, size,
          dirconf, scheduler, jobs, observer, threads, lock, saved, fs, main, sync, msgs>>

-----------------------------------------------------------------------------
(* Python str operations *)

RECURSIVE SplitFrom(_, _, _, _)
SplitFrom(s, sep, i, cur) ==
    IF i > Len(s) THEN <<cur>>
    ELSE IF s[i] = sep THEN <<cur>> \o SplitFrom(s, sep, i + 1, <<>>)
    ELSE SplitFrom(s, sep, i + 1, Append(cur, s[i]))

\* str.split(sep)
Split(s, sep) == SplitFrom(s, sep, 1, <<>>)

\* needle in hay
Contains(needle, hay) ==
    \E i \in 0..(Len(hay) - Len(needle)) : SubSeq(hay, i + 1, i + Len(needle)) = needle

UpperCase == <<"A","B","C","D","E","F","G","H","I","J","K","L","M",
               "N","O","P","Q","R","S","T","U","V","W","X","Y","Z">>
LowerCase == <<"a","b","c","d","e","f","g","h","i","j","k","l","m",
               "n","o","p","q","r","s","t","u","v","w","x","y","z">>

LowerChar(c) ==
    IF \E i \in DOMAIN UpperCase : UpperCase[i] = c
    THEN LowerCase[CHOOSE i \in DOMAIN UpperCase : UpperCase[i] = c]
    ELSE c

\* str.lower()
Lower(s) == [i \in DOMAIN s |-> LowerChar(s[i])]

\* re.findall(pattern, text, re.IGNORECASE) is non-empty, for a pattern of
\* literal characters
ReFindallIgnoreCase(pattern, text) == Contains(Lower(pattern), Lower(text))

-----------------------------------------------------------------------------
(* pathlib *)

Str(s) == [t |-> "str", s |-> s]
None == [t |-> "None", s |-> <<>>]

IsAbs(s) == Len(s) > 0 /\ s[1] = "/"

\* the components of a path text: empty components and "." are dropped
Parts(s) == SelectSeq(Split(s, "/"), LAMBDA c : c # <<>> /\ c # <<".">>)

RECURSIVE JoinParts(_)
JoinParts(ps) ==
    IF ps = <<>> THEN <<>>
    ELSE IF Len(ps) = 1 THEN ps[1]
    ELSE ps[1] \o <<"/">> \o JoinParts(Tail(ps))

PathStr(abs, ps) ==
    IF ps = <<>> THEN (IF abs THEN <<"/">> ELSE <<".">>)
    ELSE (IF abs THEN <<"/">> ELSE <<>>) \o JoinParts(ps)

\* Path(v): v a str or a Path
Path(v) == [t |-> "Path", s |-> PathStr(IsAbs(v.s), Parts(v.s))]

\* bool(v)
Truthy(v) == v.t = "Path" \/ (v.t = "str" /\ v.s # <<>>)

IsPrefix(a, b) == Len(a) <= Len(b) /\ SubSeq(b, 1, Len(a)) = a

\* p.is_relative_to(q)
IsRelativeTo(p, q) == IsAbs(p.s) = IsAbs(q.s) /\ IsPrefix(Parts(q.s), Parts(p.s))

\* p.relative_to(q), when p.is_relative_to(q)
RelativeTo(p, q) ==
    [t |-> "Path",
     s |-> PathStr(FALSE, SubSeq(Parts(p.s), Len(Parts(q.s)) + 1, Len(Parts(p.s))))]

\* d.joinpath(rel), rel a relative path
JoinPath(d, rel) == [t |-> "Path", s |-> PathStr(IsAbs(d.s), Parts(d.s) \o Parts(rel.s))]

\* path.suffix
Suffix(p) ==
    LET ps == Parts(p.s)
        name == IF ps = <<>> THEN <<>> ELSE ps[Len(ps)]
        dots == {i \in 2..Len(name) : name[i] = "."}
        last == CHOOSE i \in dots : \A j \in dots : j <= i
    IN IF dots = {} \/ last = Len(name) THEN <<>> ELSE SubSeq(name, last, Len(name))

-----------------------------------------------------------------------------
(* The universe of the model: two source trees /a and /b, two destination *)
(* trees /x and /y, and /a/m, a directory inside the source tree /a.       *)

DirA == <<"/", "a">>
DirB == <<"/", "b">>
DirX == <<"/", "x">>
DirY == <<"/", "y">>
DirAM == <<"/", "a", "/", "m">>

NameF == <<"f", ".", "m", "k", "v">>
NameG == <<"G", ".", "n", "f", "o">>

FileAF == DirA \o <<"/">> \o NameF
FileAG == DirA \o <<"/">> \o NameG
FileBF == DirB \o <<"/">> \o NameF

\* the files the external writer creates, resizes and deletes
SourceFiles == {FileAF, FileAG, FileBF}

\* the paths the destination trees may hold
TargetFiles == {d \o <<"/">> \o n : d \in {DirX, DirY}, n \in {NameF, NameG}}

Paths == SourceFiles \cup TargetFiles

\* bytes in a megabyte, as event_handler computes it
MB == 1024 * 1024

FileSizes == {MB, MB + 1}

\* monitor_dirs texts: "source[:destination]" lines
TextTwo == DirA \o <<":">> \o DirX \o <<"\n">> \o DirB \o <<":">> \o DirY
TextNested == DirA \o <<":">> \o DirAM \o <<"\n">> \o DirB \o <<":">> \o DirY
TextNoDest == DirA
TextDup == DirA \o <<":">> \o DirX \o <<"\n">> \o DirA \o <<":">> \o DirAM
TextTwice == DirA \o <<":">> \o DirX \o <<"\n">> \o DirA \o <<":">> \o DirY
TextEmpty == <<>>

Texts == {TextTwo, TextNested, TextNoDest, TextDup, TextTwice, TextEmpty}

\* the filters and the copy switch a configuration carries
Profiles ==
    {[copy_files |-> FALSE, exclude_keywords |-> <<>>, size |-> 0],
     [copy_files |-> TRUE, exclude_keywords |-> <<"g">>, size |-> 1]}

Modes == {"compatibility", "fast"}

\* the config dicts the framework hands to init_plugin
ConfigsOf(modes, profiles) ==
    {[enabled |-> e, onlyonce |-> o, copy_files |-> p.copy_files, mode |-> m,
      monitor_dirs |-> t, exclude_keywords |-> p.exclude_keywords, size |-> p.size] :
        e \in BOOLEAN, o \in BOOLEAN, m \in modes, p \in profiles, t \in Texts}

Configs == ConfigsOf(Modes, Profiles)

\* the configurations of the polling observer, whose startup does not fail
PollingConfigs == {c \in Configs : c.mode = "compatibility"}

-----------------------------------------------------------------------------
(* The filesystem *)

NoNode == [k |-> "none", size |-> 0, to |-> <<>>]
FileNode(sz) == [k |-> "file", size |-> sz, to |-> <<>>]
LinkNode(to) == [k |-> "link", size |-> 0, to |-> to]

\* os.path.lexists: an entry is there, a dangling link included
LExists(f, p) == p \in DOMAIN f /\ f[p].k # "none"

\* the regular file a path resolves to, following one symbolic link
Resolve(f, p) ==
    IF p \notin DOMAIN f THEN NoNode
    ELSE IF f[p].k = "link" THEN (IF f[p].to \in DOMAIN f /\ f[f[p].to].k = "file"
                                  THEN f[f[p].to] ELSE NoNode)
    ELSE f[p]

\* Path.exists(): follows symbolic links, so a dangling link does not exist
Exists(f, p) == Resolve(f, p).k = "file"

\* os.path.getsize
GetSize(f, p) == Resolve(f, p).size

\* an entry written or removed; a path outside the universe cannot be written
Put(f, p, node) == IF p \in DOMAIN f THEN [f EXCEPT ![p] = node] ELSE f

\* the destination trees as left by an earlier run: nothing, links or copies
InitTarget(style, p) ==
    LET src == CASE p = DirX \o <<"/">> \o NameF -> FileAF
                 [] p = DirX \o <<"/">> \o NameG -> FileAG
                 [] p = DirY \o <<"/">> \o NameF -> FileBF
                 [] OTHER -> <<>>
    IN IF style = "none" \/ src = <<>> THEN NoNode
       ELSE IF style = "link" THEN LinkNode(src)
       ELSE FileNode(MB)

InitFs(style) ==
    [p \in Paths |-> IF p \in SourceFiles THEN FileNode(MB) ELSE InitTarget(style, p)]

\* the entries of the tree under a directory, as rglob('*') lists them
Listing(f, dir) ==
    {p \in DOMAIN f : LExists(f, p) /\ Len(Parts(p)) > Len(Parts(dir))
                                     /\ IsPrefix(Parts(dir), Parts(p))}

-----------------------------------------------------------------------------
(* The plugin object after construction (class attributes, lines 72-87) *)

IdleSync == [pc |-> "idle", items |-> <<>>, i |-> 0, todo |-> {}, path |-> <<>>]

SyncThreads == {"job", "remote"}

\* call: "none", "init_plugin" or "stop_service"; raised: the exception the
\* call ended with; joined: the observer threads its stop_service joined
Returned(call, raised, joined) == [call |-> call, raised |-> raised, joined |-> joined]

Constructed ==
    /\ enabled = FALSE
    /\ onlyonce = FALSE
    /\ copy_files = FALSE
    /\ mode = "compatibility"
    /\ monitor_dirs = <<>>
    /\ exclude_keywords = <<>>
    /\ size = 0
    /\ dirconf = <<>>
    /\ scheduler = "none"
    /\ jobs = <<>>
    /\ observer = <<>>
    /\ threads = <<>>
    /\ lock = 0
    /\ saved = [enabled |-> FALSE, onlyonce |-> FALSE, copy_files |-> FALSE,
                mode |-> "compatibility", monitor_dirs |-> <<>>,
                exclude_keywords |-> <<>>, size |-> 0]
    /\ main = Returned("none", "", 0)
    /\ sync = [t \in SyncThreads |-> IdleSync]
    /\ msgs = {}

\* the destination trees are empty; the source trees hold their files or none
Init ==
    /\ Constructed
    /\ \E gone \in {{}, SourceFiles} :
          fs = [p \in Paths |-> IF p \in gone THEN NoNode ELSE InitFs("none")[p]]

\* the destination trees are empty or hold what an earlier run left
InitFiles == Constructed /\ \E style \in {"none", "link", "copy"} : fs = InitFs(style)

-----------------------------------------------------------------------------
(* stop_service, lines 324-335 *)

IdleObserver(source_dir, alive) ==
    [source_dir |-> source_dir, st |-> IF alive THEN "running" ELSE "unstarted",
     pc |-> "idle", kind |-> "", path |-> <<>>, out |-> ""]

\* the place in the list of the first observer whose thread was never started,
\* 0 if there is none: observer.join() raises RuntimeError there
FirstUnstarted(obs, thr) ==
    IF \E i \in DOMAIN obs : thr[obs[i]].st = "unstarted"
    THEN CHOOSE i \in DOMAIN obs :
            thr[obs[i]].st = "unstarted" /\ \A j \in 1..(i - 1) : thr[obs[j]].st # "unstarted"
    ELSE 0

\* stop_service blocks in scheduler.shutdown() until the running job has ended,
\* and in observer.join() until the observer's thread has left its handler
CanStop ==
    /\ scheduler = "running" => sync["job"].pc = "idle"
    /\ \A i \in DOMAIN observer : threads[observer[i]].pc = "idle"

\* the observers of the list up to place k stopped and joined (lines 332-334)
StopAndJoin(obs, thr, k) ==
    [id \in DOMAIN thr |->
        IF \E i \in 1..k : obs[i] = id /\ thr[id].st = "running"
        THEN [thr[id] EXCEPT !.st = "stopped"] ELSE thr[id]]

\* the observer objects still alive: those running and those the list holds
Alive(obs, thr) ==
    LET keep == {id \in DOMAIN thr : thr[id].st = "running" \/ \E i \in DOMAIN obs : obs[i] = id}
    IN [id \in keep |-> thr[id]]

\* the variant that empties the list without stopping the observers
StopServiceResultForgetful ==
    [scheduler |-> IF scheduler = "running" THEN "shutdown" ELSE scheduler,
     jobs |-> IF scheduler # "none" THEN <<>> ELSE jobs,
     observer |-> <<>>, threads |-> Alive(<<>>, threads),
     raised |-> IF scheduler \in {"created", "shutdown"}
                THEN "SchedulerNotRunningError" ELSE "",
     joined |-> Cardinality({i \in DOMAIN observer : threads[observer[i]].st = "running"})]

\* the state stop_service leaves, and the exception it ends with ("" if none)
StopServiceResult ==
    LET jobs1 == IF scheduler # "none" THEN <<>> ELSE jobs
        sched1 == IF scheduler = "running" THEN "shutdown" ELSE scheduler
        k == FirstUnstarted(observer, threads)
        running == {i \in DOMAIN observer : threads[observer[i]].st = "running"}
    IN IF scheduler \in {"created", "shutdown"}
       THEN \* line 331: shutdown() of a scheduler that is not running
            [scheduler |-> scheduler, jobs |-> jobs1, observer |-> observer,
             threads |-> threads, raised |-> "SchedulerNotRunningError", joined |-> 0]
       ELSE IF k # 0
       THEN \* line 334: join() of a thread that was never started
            [scheduler |-> sched1, jobs |-> jobs1, observer |-> observer,
             threads |-> StopAndJoin(observer, threads, k - 1),
             raised |-> "RuntimeError",
             joined |-> Cardinality({i \in running : i < k})]
       ELSE [scheduler |-> sched1, jobs |-> jobs1, observer |-> <<>>,
             threads |-> Alive(<<>>, StopAndJoin(observer, threads, Len(observer))),
             raised |-> "", joined |-> Cardinality(running)]

\* the framework unloads the plugin
StopService ==
    /\ CanStop
    /\ scheduler' = StopServiceResult.scheduler
    /\ jobs' = StopServiceResult.jobs
    /\ observer' = StopServiceResult.observer
    /\ threads' = StopServiceResult.threads
    /\ main' = Returned("stop_service", StopServiceResult.raised, StopServiceResult.joined)
    /\ msgs' = {}
    /\ UNCHANGED <<confVars, dirconf, lock, saved, fs, sync>>

-----------------------------------------------------------------------------
(* init_plugin, lines 89-176 *)

\* d[key] = val on an insertion-ordered dict
DictSet(d, key, val) ==
    IF \E i \in DOMAIN d : d[i].key = key
    THEN [i \in DOMAIN d |-> IF d[i].key = key THEN [key |-> key, val |-> val] ELSE d[i]]
    ELSE Append(d, [key |-> key, val |-> val])

\* d.get(key)
DictGet(d, key) ==
    IF \E i \in DOMAIN d : d[i].key = key
    THEN d[CHOOSE i \in DOMAIN d : d[i].key = key].val
    ELSE None

\* d.values()
DictValues(d) == [i \in DOMAIN d |-> d[i].val]

StartMonitorJob(source_dir) == [func |-> "start_monitor", source_dir |-> source_dir]
SyncAllJob == [func |-> "sync_all", source_dir |-> <<>>]

\* one pass of the loop over the lines of monitor_dirs, lines 115-159
BuildLine(acc, mon_path, en) ==
    IF mon_path = <<>> THEN acc
    ELSE LET paths == Split(mon_path, ":")
             mon == IF Len(paths) > 1 THEN paths[1] ELSE mon_path
             target_path == IF Len(paths) > 1 THEN Path(Str(paths[2])) ELSE None
             d1 == DictSet(acc.dirconf, mon, target_path)
         IN IF ~en THEN [acc EXCEPT !.dirconf = d1]
            ELSE IF Truthy(target_path) /\ IsRelativeTo(target_path, Path(Str(mon)))
            THEN [acc EXCEPT !.dirconf = d1,
                             !.msgs = @ \cup {[type |-> "subdir", about |-> mon]}]
            ELSE [acc EXCEPT !.dirconf = d1,
                             !.jobs = Append(@, StartMonitorJob(mon))]

RECURSIVE BuildLines(_, _, _)
BuildLines(acc, lines, en) ==
    IF lines = <<>> THEN acc
    ELSE BuildLines(BuildLine(acc, Head(lines), en), Tail(lines), en)

\* lines 107-176 for a configuration with the flags en and once and the text
\* text: the table rebuilt, the jobs scheduled, the messages put and the
\* state of the new scheduler
BuildResult(en, once, text) ==
    LET acc == BuildLines([dirconf |-> <<>>, jobs |-> <<>>, msgs |-> {}],
                          Split(text, "\n"), en)
        jobs2 == IF once THEN Append(acc.jobs, SyncAllJob) ELSE acc.jobs
    IN [dirconf |-> acc.dirconf, jobs |-> jobs2, msgs |-> acc.msgs,
        scheduler |-> IF jobs2 # <<>> THEN "running" ELSE "created"]

\* __update_config, lines 208-221: what update_config persists
UpdateConfig(config) == [config EXCEPT !.onlyonce = FALSE]

\* init_plugin(config), taken when its stop_service does not have to wait.
\* The framework has persisted config before the call.
InitPlugin(config) ==
    /\ CanStop
    /\ enabled' = config.enabled
    /\ copy_files' = config.copy_files
    /\ mode' = config.mode
    /\ monitor_dirs' = config.monitor_dirs
    /\ exclude_keywords' = config.exclude_keywords
    /\ size' = config.size
    /\ observer' = StopServiceResult.observer
    /\ threads' = StopServiceResult.threads
    /\ main' = Returned("init_plugin", StopServiceResult.raised, StopServiceResult.joined)
    /\ IF StopServiceResult.raised # ""
       THEN \* line 105: the exception of stop_service ends init_plugin
            /\ dirconf' = <<>>
            /\ onlyonce' = config.onlyonce
            /\ scheduler' = StopServiceResult.scheduler
            /\ jobs' = StopServiceResult.jobs
            /\ msgs' = {}
            /\ saved' = config
       ELSE IF config.enabled \/ config.onlyonce
       THEN LET r == BuildResult(config.enabled, config.onlyonce, config.monitor_dirs)
            IN /\ dirconf' = r.dirconf
               /\ onlyonce' = FALSE
               /\ scheduler' = r.scheduler
               /\ jobs' = r.jobs
               /\ msgs' = r.msgs
               /\ saved' = IF config.onlyonce THEN UpdateConfig(config) ELSE config
       ELSE /\ dirconf' = <<>>
            /\ onlyonce' = FALSE
            /\ scheduler' = StopServiceResult.scheduler
            /\ jobs' = StopServiceResult.jobs
            /\ msgs' = {}
            /\ saved' = config
    /\ UNCHANGED <<lock, fs, sync>>

\* the configuration the attributes hold
CurrentConfig ==
    [enabled |-> enabled, onlyonce |-> onlyonce, copy_files |-> copy_files, mode |-> mode,
     monitor_dirs |-> monitor_dirs, exclude_keywords |-> exclude_keywords, size |-> size]

\* init_plugin(config) up to line 102: the table is replaced by an empty one
\* and the attributes are read from config; stop_service is still to be called
InitPluginBegin(config) ==
    /\ main.call # "applying"
    /\ dirconf' = <<>>
    /\ enabled' = config.enabled
    /\ onlyonce' = config.onlyonce
    /\ copy_files' = config.copy_files
    /\ mode' = config.mode
    /\ monitor_dirs' = config.monitor_dirs
    /\ exclude_keywords' = config.exclude_keywords
    /\ size' = config.size
    /\ saved' = config
    /\ main' = Returned("applying", "", 0)
    /\ msgs' = {}
    /\ UNCHANGED <<scheduler, jobs, observer, threads, lock, fs, sync>>

\* init_plugin from line 105 to its end
InitPluginFinish ==
    /\ main.call = "applying"
    /\ InitPlugin(CurrentConfig)

-----------------------------------------------------------------------------
(* start_monitor, lines 178-206, run by the scheduler as a pending job *)

RemoveAt(q, j) == SubSeq(q, 1, j - 1) \o SubSeq(q, j + 1, Len(q))

\* the identity of a new observer object
NewId == CHOOSE n \in 1..(Cardinality(DOMAIN threads) + 1) :
            n \notin DOMAIN threads /\ \A m \in 1..(n - 1) : m \in DOMAIN threads

\* started: whether observer.schedule() and observer.start() succeed; the
\* native observer fails when the inotify limit is reached
StartMonitor(j, started) ==
    /\ scheduler = "running"
    /\ j \in DOMAIN jobs
    /\ jobs[j].func = "start_monitor"
    /\ started \/ mode # "compatibility"
    /\ jobs' = RemoveAt(jobs, j)
    /\ observer' = Append(observer, NewId)
    /\ threads' = [id \in DOMAIN threads \cup {NewId} |->
                     IF id = NewId THEN IdleObserver(jobs[j].source_dir, started)
                     ELSE threads[id]]
    /\ msgs' = IF started THEN {}
               ELSE {[type |-> "start_failed", about |-> jobs[j].source_dir]}
    /\ UNCHANGED <<confVars, dirconf, scheduler, lock, saved, fs, main, sync>>

-----------------------------------------------------------------------------
(* __handle_file, lines 280-310 *)

\* the extensions of MediaType.ALL_VIDEO + MediaType.ALL_SUBTITLE that the
\* universe uses
MediaExts == {<<".", "m", "k", "v">>, <<".", "s", "r", "t">>}

\* shutil.copy(path, target): through a dangling link it writes the file the
\* link names
Copy(f, path, target) ==
    IF target \in DOMAIN f /\ f[target].k = "link"
    THEN Put(f, f[target].to, FileNode(GetSize(f, path)))
    ELSE Put(f, target, FileNode(GetSize(f, path)))

\* the variant that copies every file when copy_files is set
HandleFileAlwaysCopy(path, mon_path, target_path, f) ==
    LET vals == SelectSeq(DictValues(dirconf), Truthy)
        target_file == JoinPath(target_path, RelativeTo(path, mon_path)).s
        f1 == IF Exists(f, target_file) THEN Put(f, target_file, NoNode) ELSE f
    IN IF path.t = "str"
       THEN [fs |-> f, raised |-> "AttributeError"]
       ELSE IF ~Exists(f, path.s)
       THEN [fs |-> f, raised |-> ""]
       ELSE IF \E k \in DOMAIN vals : vals[k].t # "str"
       THEN [fs |-> f, raised |-> "TypeError"]
       ELSE IF \E k \in DOMAIN vals : Contains(vals[k].s, path.s)
       THEN [fs |-> f, raised |-> ""]
       ELSE IF ~IsRelativeTo(path, mon_path)
       THEN [fs |-> f, raised |-> "ValueError"]
       ELSE IF target_path.t = "None"
       THEN [fs |-> f, raised |-> "AttributeError"]
       ELSE IF ~copy_files
       THEN IF LExists(f1, target_file)
            THEN [fs |-> f1, raised |-> "FileExistsError"]
            ELSE [fs |-> Put(f1, target_file, LinkNode(path.s)), raised |-> ""]
       ELSE [fs |-> Copy(f1, path.s, target_file), raised |-> ""]

\* path: a str or a Path; mon_path: a str; target_path: a Path or None.
\* The result is the filesystem left and the exception raised ("" if none).
HandleFile(path, mon_path, target_path, f) ==
    LET vals == SelectSeq(DictValues(dirconf), Truthy)
        target_file == JoinPath(target_path, RelativeTo(path, mon_path)).s
        f1 == IF Exists(f, target_file) THEN Put(f, target_file, NoNode) ELSE f
        link == ~copy_files \/ Lower(Suffix(path)) \in MediaExts
    IN IF path.t = "str"
       THEN \* line 285: str has no attribute exists
            [fs |-> f, raised |-> "AttributeError"]
       ELSE IF ~Exists(f, path.s)
       THEN [fs |-> f, raised |-> ""]
       ELSE IF \E k \in DOMAIN vals : vals[k].t # "str"
       THEN \* line 289: `p in str(path)` with p a Path
            [fs |-> f, raised |-> "TypeError"]
       ELSE IF \E k \in DOMAIN vals : Contains(vals[k].s, path.s)
       THEN [fs |-> f, raised |-> ""]
       ELSE IF ~IsRelativeTo(path, mon_path)
       THEN [fs |-> f, raised |-> "ValueError"]
       ELSE IF target_path.t = "None"
       THEN \* line 294: None has no attribute joinpath
            [fs |-> f, raised |-> "AttributeError"]
       ELSE IF link
       THEN IF LExists(f1, target_file)
            THEN [fs |-> f1, raised |-> "FileExistsError"]
            ELSE [fs |-> Put(f1, target_file, LinkNode(path.s)), raised |-> ""]
       ELSE [fs |-> Copy(f1, path.s, target_file), raised |-> ""]

-----------------------------------------------------------------------------
(* __handle_delete, lines 312-322 *)

RECURSIVE DeleteIn(_, _, _)
DeleteIn(vals, relpath, f) ==
    IF vals = <<>> THEN f
    ELSE LET target_file == JoinPath(Head(vals), relpath).s
         IN DeleteIn(Tail(vals), relpath,
                     IF Truthy(Head(vals)) /\ Exists(f, target_file)
                     THEN Put(f, target_file, NoNode) ELSE f)

\* the variant that unlinks without the exists() test of line 320
HandleDeleteUnchecked(path, mon_path, f) ==
    LET relpath == RelativeTo(Path(path), mon_path)
        vals == SelectSeq(DictValues(dirconf), Truthy)
    IN IF ~IsRelativeTo(Path(path), mon_path)
       THEN [fs |-> f, raised |-> "ValueError"]
       ELSE IF \E k \in DOMAIN vals : ~Exists(f, JoinPath(vals[k], relpath).s)
       THEN [fs |-> f, raised |-> "FileNotFoundError"]
       ELSE [fs |-> DeleteIn(DictValues(dirconf), relpath, f), raised |-> ""]

HandleDelete(path, mon_path, f) ==
    IF ~IsRelativeTo(Path(path), mon_path)
    THEN [fs |-> f, raised |-> "ValueError"]
    ELSE [fs |-> DeleteIn(DictValues(dirconf), RelativeTo(Path(path), mon_path), f),
          raised |-> ""]

-----------------------------------------------------------------------------
(* event_handler, lines 250-278, called by an observer's thread *)

Kinds == {"created", "moved", "deleted"}

\* what the body of event_handler does under the lock: the filesystem left and
\* how the call ended
EventResult(kind, event_path, mon_path, f) ==
    LET r == IF kind = "deleted"
             THEN HandleDelete(Str(event_path), Str(mon_path), f)
             ELSE HandleFile(Str(event_path), Str(mon_path), DictGet(dirconf, mon_path), f)
    IN IF ~Exists(f, event_path) /\ kind # "deleted"
       THEN [fs |-> f, out |-> "missing"]
       ELSE IF size > 0 /\ Exists(f, event_path) /\ GetSize(f, event_path) > size * 1024 * 1024
       THEN [fs |-> f, out |-> "oversize"]
       ELSE IF exclude_keywords # <<>> /\ ReFindallIgnoreCase(exclude_keywords, event_path)
       THEN [fs |-> f, out |-> "excluded"]
       ELSE [fs |-> r.fs, out |-> IF r.raised = "" THEN "done" ELSE r.raised]

Outcomes == {"missing", "oversize", "excluded", "done"}

\* the paths an observer of source_dir reports events for
Watched(source_dir) ==
    {p \in Paths : Len(Parts(p)) > Len(Parts(source_dir))
                   /\ IsPrefix(Parts(source_dir), Parts(p))}

\* line 254: with lock
EvAcquire(o) ==
    /\ o \in DOMAIN threads
    /\ threads[o].st = "running"
    /\ threads[o].pc = "idle"
    /\ lock = 0
    /\ lock' = o
    /\ threads' = [threads EXCEPT ![o].pc = "held"]
    /\ msgs' = {}
    /\ UNCHANGED <<confVars, dirconf, scheduler, jobs, observer, saved, fs, main, sync>>

\* the variant without the try/except of lines 255 and 276-278: the exception
\* leaves the with block and ends the observer's thread
EvHandleUncaught(o, kind, event_path) ==
    /\ o \in DOMAIN threads
    /\ threads[o].pc = "held"
    /\ event_path \in Watched(threads[o].source_dir)
    /\ LET r == EventResult(kind, event_path, threads[o].source_dir, fs)
       IN /\ fs' = r.fs
          /\ threads' = [threads EXCEPT ![o].pc = "ran", ![o].kind = kind,
                                          ![o].path = event_path, ![o].out = r.out,
                                          ![o].st = IF r.out \in Outcomes THEN "running"
                                                    ELSE "stopped"]
          /\ msgs' = {}
    /\ UNCHANGED <<confVars, dirconf, scheduler, jobs, observer, lock, saved, main, sync>>

\* lines 255-278: the event is filtered and handled
EvHandle(o, kind, event_path) ==
    /\ o \in DOMAIN threads
    /\ threads[o].pc = "held"
    /\ event_path \in Watched(threads[o].source_dir)
    /\ LET r == EventResult(kind, event_path, threads[o].source_dir, fs)
       IN /\ fs' = r.fs
          /\ threads' = [threads EXCEPT ![o].pc = "ran", ![o].kind = kind,
                                          ![o].path = event_path, ![o].out = r.out]
          /\ msgs' = IF r.out \in Outcomes THEN {}
                     ELSE {[type |-> "event_failed", about |-> event_path]}
    /\ UNCHANGED <<confVars, dirconf, scheduler, jobs, observer, lock, saved, main, sync>>

\* line 254 in two steps: the observer's thread calls event_handler and waits
\* for the lock
EvArrive(o) ==
    /\ o \in DOMAIN threads
    /\ threads[o].st = "running"
    /\ threads[o].pc = "idle"
    /\ threads' = [threads EXCEPT ![o].pc = "waiting"]
    /\ msgs' = {}
    /\ UNCHANGED <<confVars, dirconf, scheduler, jobs, observer, lock, saved, fs, main, sync>>

\* the waiting thread acquires the lock
EvEnter(o) ==
    /\ o \in DOMAIN threads
    /\ threads[o].pc = "waiting"
    /\ lock = 0
    /\ lock' = o
    /\ threads' = [threads EXCEPT ![o].pc = "held"]
    /\ msgs' = {}
    /\ UNCHANGED <<confVars, dirconf, scheduler, jobs, observer, saved, fs, main, sync>>

\* the variant in which an exception leaves the lock held
EvReleaseLeaky(o) ==
    /\ o \in DOMAIN threads
    /\ threads[o].pc = "ran"
    /\ lock' = IF threads[o].out \in Outcomes THEN 0 ELSE lock
    /\ threads' = [threads EXCEPT ![o].pc = "idle", ![o].kind = "",
                                    ![o].path = <<>>, ![o].out = ""]
    /\ msgs' = {}
    /\ UNCHANGED <<confVars, dirconf, scheduler, jobs, observer, saved, fs, main, sync>>

\* the with block is left
EvRelease(o) ==
    /\ o \in DOMAIN threads
    /\ threads[o].pc = "ran"
    /\ lock' = 0
    /\ threads' = [threads EXCEPT ![o].pc = "idle", ![o].kind = "",
                                    ![o].path = <<>>, ![o].out = ""]
    /\ msgs' = {}
    /\ UNCHANGED <<confVars, dirconf, scheduler, jobs, observer, saved, fs, main, sync>>

-----------------------------------------------------------------------------
(* sync_all, lines 240-248, run by the scheduler's job or by remote_sync *)

\* the walk at mapping i: its listing is taken when the walk enters it
EnterMapping(items, i, f) ==
    [pc |-> "walk", items |-> items, i |-> i, todo |-> Listing(f, items[i].key),
     path |-> <<>>]

StartWalk(f) == IF dirconf = <<>> THEN IdleSync ELSE EnterMapping(dirconf, 1, f)

\* the scheduler runs the pending sync_all job
RunSyncJob(j) ==
    /\ scheduler = "running"
    /\ j \in DOMAIN jobs
    /\ jobs[j].func = "sync_all"
    /\ sync["job"].pc = "idle"
    /\ jobs' = RemoveAt(jobs, j)
    /\ sync' = [sync EXCEPT !["job"] = StartWalk(fs)]
    /\ msgs' = {}
    /\ UNCHANGED <<confVars, dirconf, scheduler, observer, threads, lock, saved, fs, main>>

\* remote_sync, lines 223-238, with the softlink_sync action
RemoteSync ==
    /\ sync["remote"].pc = "idle"
    /\ sync' = [sync EXCEPT !["remote"] = StartWalk(fs)]
    /\ msgs' = {}
    /\ UNCHANGED <<confVars, dirconf, scheduler, jobs, observer, threads, lock, saved, fs, main>>

\* lines 246-247: the next entry of the listing; a regular file is handled
SyncPick(t, p) ==
    /\ sync[t].pc = "walk"
    /\ p \in sync[t].todo
    /\ sync' = [sync EXCEPT ![t].todo = @ \ {p},
                            ![t].pc = IF Exists(fs, p) THEN "file" ELSE "walk",
                            ![t].path = IF Exists(fs, p) THEN p ELSE <<>>]
    /\ msgs' = {}
    /\ UNCHANGED <<confVars, dirconf, scheduler, jobs, observer, threads, lock, saved, fs, main>>

\* line 248: __handle_file; an exception ends sync_all
SyncFile(t) ==
    /\ sync[t].pc = "file"
    /\ LET m == sync[t].items[sync[t].i]
           r == HandleFile(Path(Str(sync[t].path)), Str(m.key), m.val, fs)
       IN /\ fs' = r.fs
          /\ sync' = [sync EXCEPT ![t] = IF r.raised = ""
                                         THEN [@ EXCEPT !.pc = "walk", !.path = <<>>]
                                         ELSE IdleSync]
    /\ msgs' = {}
    /\ UNCHANGED <<confVars, dirconf, scheduler, jobs, observer, threads, lock, saved, main>>

\* line 244: the listing is exhausted; the next mapping, or the end
SyncAdvance(t) ==
    /\ sync[t].pc = "walk"
    /\ sync[t].todo = {}
    /\ sync' = [sync EXCEPT ![t] = IF sync[t].i < Len(sync[t].items)
                                   THEN EnterMapping(sync[t].items, sync[t].i + 1, fs)
                                   ELSE IdleSync]
    /\ msgs' = {}
    /\ UNCHANGED <<confVars, dirconf, scheduler, jobs, observer, threads, lock, saved, fs, main>>

-----------------------------------------------------------------------------
(* The external writer *)

WriteFile(p, sz) ==
    /\ fs[p] # FileNode(sz)
    /\ fs' = [fs EXCEPT ![p] = FileNode(sz)]
    /\ msgs' = {}
    /\ UNCHANGED <<confVars, dirconf, scheduler, jobs, observer, threads, lock, saved, main, sync>>

RemoveFile(p) ==
    /\ fs[p].k # "none"
    /\ fs' = [fs EXCEPT ![p] = NoNode]
    /\ msgs' = {}
    /\ UNCHANGED <<confVars, dirconf, scheduler, jobs, observer, threads, lock, saved, main, sync>>

\* the file p is renamed to q
MoveFile(p, q) ==
    /\ p # q
    /\ fs[p].k = "file"
    /\ fs' = [fs EXCEPT ![q] = fs[p], ![p] = NoNode]
    /\ msgs' = {}
    /\ UNCHANGED <<confVars, dirconf, scheduler, jobs, observer, threads, lock, saved, main, sync>>

-----------------------------------------------------------------------------

\* The life cycle of the plugin: configurations applied and the service
\* stopped in any order, over source trees that do not change.
Next ==
    \/ \E config \in Configs : InitPlugin(config)
    \/ StopService
    \/ \E j \in DOMAIN jobs, started \in BOOLEAN : StartMonitor(j, started)
    \/ \E j \in DOMAIN jobs : RunSyncJob(j)
    \/ \E t \in SyncThreads, p \in Paths : SyncPick(t, p)
    \/ \E t \in SyncThreads : SyncFile(t)
    \/ \E t \in SyncThreads : SyncAdvance(t)
    \/ \E o \in DOMAIN threads : EvAcquire(o)
    \/ \E o \in DOMAIN threads, kind \in Kinds, p \in Paths : EvHandle(o, kind, p)
    \/ \E o \in DOMAIN threads : EvRelease(o)

Spec == Init /\ [][Next]_vars

\* The plugin configured once, with any filters, while the external writer
\* works on the source trees and full resyncs are asked for remotely.
NextFiles ==
    \/ \E config \in {c \in PollingConfigs : ~c.onlyonce} :
            scheduler = "none" /\ InitPlugin(config)
    \/ \E j \in DOMAIN jobs : StartMonitor(j, TRUE)
    \/ RemoteSync
    \/ \E t \in SyncThreads, p \in Paths : SyncPick(t, p)
    \/ \E t \in SyncThreads : SyncFile(t)
    \/ \E t \in SyncThreads : SyncAdvance(t)
    \/ \E o \in DOMAIN threads : EvAcquire(o)
    \/ \E o \in DOMAIN threads, kind \in Kinds, p \in Paths : EvHandle(o, kind, p)
    \/ \E o \in DOMAIN threads : EvRelease(o)
    \/ \E sz \in FileSizes : WriteFile(FileAF, sz)
    \/ \E p \in {FileAF, FileAG} : RemoveFile(p)
    \/ MoveFile(FileAF, FileAG)

SpecFiles == InitFiles /\ [][NextFiles]_vars

ResyncConfigs ==
    {c \in PollingConfigs : ~c.onlyonce /\ c.monitor_dirs \in {TextTwo, TextNoDest}}

\* Configurations applied again and again while full resyncs asked for
\* remotely are walking the source trees.
NextResync ==
    \/ \E config \in ResyncConfigs : InitPlugin(config)
    \/ \E j \in DOMAIN jobs : StartMonitor(j, TRUE)
    \/ RemoteSync
    \/ \E t \in SyncThreads, p \in Paths : SyncPick(t, p)
    \/ \E t \in SyncThreads : SyncFile(t)
    \/ \E t \in SyncThreads : SyncAdvance(t)
    \/ \E o \in DOMAIN threads : EvAcquire(o)
    \/ \E o \in DOMAIN threads, kind \in Kinds, p \in Paths : EvHandle(o, kind, p)
    \/ \E o \in DOMAIN threads : EvRelease(o)

InitResync == Constructed /\ fs = InitFs("none")

SpecResync == InitResync /\ [][NextResync]_vars

ApplyConfigs ==
    {c \in PollingConfigs : ~c.onlyonce /\ c.size = 0 /\ c.monitor_dirs \in {TextTwo, TextNoDest}}

\* Configurations applied again and again, init_plugin taken in its two
\* parts, while the observers deliver events.
NextApply ==
    \/ \E config \in ApplyConfigs : InitPluginBegin(config)
    \/ InitPluginFinish
    \/ \E j \in DOMAIN jobs : StartMonitor(j, TRUE)
    \/ \E o \in DOMAIN threads : EvAcquire(o)
    \/ \E o \in DOMAIN threads, kind \in Kinds, p \in Paths : EvHandle(o, kind, p)
    \/ \E o \in DOMAIN threads : EvRelease(o)

SpecApply == InitResync /\ [][NextApply]_vars

\* the observers a configuration of the universe can start
MaxObservers == 2

LiveConfigs == {c \in PollingConfigs : c.enabled /\ ~c.onlyonce /\ c.monitor_dirs = TextTwo}

\* the file /a/f.mkv is absent, or has one of the sizes
InitLive ==
    /\ Constructed
    /\ \E node \in {NoNode} \cup {FileNode(sz) : sz \in FileSizes} :
          fs = [InitFs("none") EXCEPT ![FileAF] = node]

\* The plugin configured once; the observers' threads call event_handler and
\* wait for the lock.
NextLive ==
    \/ \E config \in LiveConfigs : scheduler = "none" /\ InitPlugin(config)
    \/ \E j \in DOMAIN jobs : Cardinality(DOMAIN threads) < MaxObservers /\ StartMonitor(j, TRUE)
    \/ \E o \in 1..MaxObservers : EvArrive(o)
    \/ \E o \in 1..MaxObservers : EvEnter(o)
    \/ \E o \in 1..MaxObservers, kind \in Kinds, p \in Paths : EvHandle(o, kind, p)
    \/ \E o \in 1..MaxObservers : EvRelease(o)

\* a thread inside event_handler goes on, and the lock is granted fairly
FairLive ==
    \A o \in 1..MaxObservers :
        /\ SF_vars(EvEnter(o))
        /\ WF_vars(\E kind \in Kinds, p \in Paths : EvHandle(o, kind, p))
        /\ WF_vars(EvRelease(o))

SpecLive == InitLive /\ [][NextLive]_vars /\ FairLive

-----------------------------------------------------------------------------
(* The vocabulary of the properties *)

\* the target path of the source path p under the mapping S -> D
TargetFile(p, S, D) == JoinPath(D, RelativeTo(Path(Str(p)), Str(S))).s

\* the mapped source roots of a table that contain p, with their destinations
MappingsOf(d, p) ==
    {m \in {d[i] : i \in DOMAIN d} :
        Truthy(m.val) /\ IsRelativeTo(Path(Str(p)), Str(m.key))}

\* the rejection rules, on the filesystem f
Oversized(f, p) == size > 0 /\ Exists(f, p) /\ GetSize(f, p) > size * MB
Excluded(p) == exclude_keywords # <<>> /\ ReFindallIgnoreCase(exclude_keywords, p)
InDestination(p) ==
    \E i \in DOMAIN dirconf : Truthy(dirconf[i].val) /\ Contains(dirconf[i].val.s, p)
NoRule(f, p) == ~Oversized(f, p) /\ ~Excluded(p) /\ ~InDestination(p)

\* the observer thread id has handled an event of one of the kinds
Ran(id, kinds) == threads[id].pc = "ran" /\ threads[id].kind \in kinds

\* the step is the handling of an event by the observer thread id
Handles(id) == id \in DOMAIN threads /\ threads[id].pc = "held" /\ threads'[id].pc = "ran"

\* the step is the call of __handle_file by the sync_all thread t
Materializes(t) == sync[t].pc = "file" /\ sync'[t].pc # "file"

\* the mapping and the file of the call by the sync_all thread t
MappingAt(t) == sync[t].items[sync[t].i]

-----------------------------------------------------------------------------
(* C1 *)

\* C1: every change of an entry of a destination tree is made in a step of a
\* thread that holds the global lock, so that at most one mutation is in
\* progress at any instant, full resyncs included.
C1_MutationUnderLock ==
    [][(\E p \in TargetFiles : fs'[p] # fs[p])
        => \E id \in DOMAIN threads : lock = id /\ Handles(id)]_vars

-----------------------------------------------------------------------------
(* C2 *)

\* C2: once a Created event for an existing file under a mapped source root
\* has been handled, or sync_all has handled the file, and no rejection rule
\* applies to it, the destination holds an entry at the file's target path.
C2_Materialized ==
    [][/\ \A id \in DOMAIN threads :
            LET e == threads'[id]
            IN (Handles(id) /\ e.kind = "created" /\ Exists(fs, e.path) /\ NoRule(fs, e.path))
               => \A m \in MappingsOf(dirconf, e.path) :
                     m.key = e.source_dir => LExists(fs', TargetFile(e.path, m.key, m.val))
       /\ \A t \in SyncThreads :
            (Materializes(t) /\ Exists(fs, sync[t].path) /\ NoRule(fs, sync[t].path)
                /\ Truthy(MappingAt(t).val))
            => LExists(fs', TargetFile(sync[t].path, MappingAt(t).key, MappingAt(t).val))]_vars

-----------------------------------------------------------------------------
(* C3 *)

\* C3: while an exclude pattern is configured, no entry is created in a
\* destination tree for a source file whose path matches the pattern, neither
\* by an event nor by a full resync.
C3_ExcludedNeverCreated ==
    [][\A p \in SourceFiles, d \in {DirX, DirY} :
          LET target == TargetFile(p, IF IsPrefix(Parts(DirA), Parts(p)) THEN DirA ELSE DirB,
                                   Path(Str(d)))
          IN (Excluded(p) /\ ~LExists(fs, target)) => ~LExists(fs', target)]_vars

-----------------------------------------------------------------------------
(* C4 *)

\* C4: with a positive size threshold, no step materializes a file that is
\* oversized, and once a Created or Moved event has been handled for an
\* existing file that is no longer oversized (and that no other rule rejects),
\* the destination holds an entry at its target path.
C4_SizeThreshold ==
    [][size > 0 =>
        /\ \A p \in SourceFiles, d \in {DirX, DirY} :
              LET target == TargetFile(p, IF IsPrefix(Parts(DirA), Parts(p)) THEN DirA ELSE DirB,
                                       Path(Str(d)))
              IN (Oversized(fs, p) /\ ~LExists(fs, target)) => ~LExists(fs', target)
        /\ \A id \in DOMAIN threads :
              LET e == threads'[id]
              IN (Handles(id) /\ e.kind \in {"created", "moved"} /\ Exists(fs, e.path)
                     /\ GetSize(fs, e.path) <= size * MB /\ NoRule(fs, e.path))
                 => \A m \in MappingsOf(dirconf, e.path) :
                       m.key = e.source_dir
                          => LExists(fs', TargetFile(e.path, m.key, m.val))]_vars

-----------------------------------------------------------------------------
(* C5 *)

\* C5: after a Deleted event for a file already removed from its source tree
\* has been handled and was not rejected by the exclude filter, the
\* destination of its source root holds no entry at the file's target path,
\* be it a symbolic link or a copy.
C5_DeletePropagated ==
    \A id \in DOMAIN threads :
        (Ran(id, {"deleted"}) /\ ~LExists(fs, threads[id].path) /\ ~Excluded(threads[id].path))
        => \A m \in MappingsOf(dirconf, threads[id].path) :
              ~LExists(fs, TargetFile(threads[id].path, m.key, m.val))

-----------------------------------------------------------------------------
(* C6 *)

\* no destination tree holds an entry at the target path of p
AbsentEverywhere(f, p, mon_path) ==
    \A i \in DOMAIN dirconf :
        Truthy(dirconf[i].val) => ~LExists(f, TargetFile(p, mon_path, dirconf[i].val))

\* C6: the handling of a Deleted event for a path whose target is absent from
\* every destination tree changes no filesystem state and reports no error,
\* and handling the same Deleted event again right after it leaves the
\* filesystem as the first handling left it, again without error.
C6_DeleteIdempotent ==
    [][\A id \in DOMAIN threads :
          (Handles(id) /\ threads'[id].kind = "deleted")
          => LET e == threads'[id]
                 again == EventResult("deleted", e.path, e.source_dir, fs')
             IN /\ AbsentEverywhere(fs, e.path, e.source_dir)
                     => (fs' = fs /\ e.out \in Outcomes /\ msgs' = {})
                /\ again.fs = fs'
                /\ again.out \in Outcomes]_vars

\* a Deleted event has been handled for a removed file of a mapped source
\* root whose target is absent from every destination tree
C6_Witness ==
    \E id \in DOMAIN threads :
        /\ Ran(id, {"deleted"})
        /\ threads[id].out = "done"
        /\ ~LExists(fs, threads[id].path)
        /\ MappingsOf(dirconf, threads[id].path) # {}
        /\ AbsentEverywhere(fs, threads[id].path, threads[id].source_dir)

-----------------------------------------------------------------------------
(* C7 *)

\* C7: a call of __handle_file for an existing source file of a mapping with
\* a destination creates the entry at the target path without error, and the
\* same call made again right after it leaves the filesystem as the first
\* call left it, again without error.
C7_MaterializeIdempotent ==
    [][/\ \A t \in SyncThreads :
            (Materializes(t) /\ Exists(fs, sync[t].path) /\ Truthy(MappingAt(t).val)
                /\ ~InDestination(sync[t].path))
            => LET again == HandleFile(Path(Str(sync[t].path)), Str(MappingAt(t).key),
                                       MappingAt(t).val, fs')
               IN /\ sync'[t].pc = "walk"
                  /\ LExists(fs', TargetFile(sync[t].path, MappingAt(t).key, MappingAt(t).val))
                  /\ again.raised = ""
                  /\ again.fs = fs'
       /\ \A id \in DOMAIN threads :
            LET e == threads'[id]
            IN (Handles(id) /\ e.kind \in {"created", "moved"}
                   /\ e.out \notin {"missing", "oversize", "excluded"}
                   /\ Truthy(DictGet(dirconf, e.source_dir)) /\ ~InDestination(e.path))
               => LET again == EventResult(e.kind, e.path, e.source_dir, fs')
                  IN /\ e.out = "done"
                     /\ LExists(fs', TargetFile(e.path, e.source_dir,
                                                DictGet(dirconf, e.source_dir)))
                     /\ again.out = "done"
                     /\ again.fs = fs']_vars

-----------------------------------------------------------------------------
(* C8 *)

\* a mapping whose destination is its own source or inside it
SelfNested(m) == Truthy(m.val) /\ IsRelativeTo(m.val, Path(Str(m.key)))

\* C8: when a configuration is applied with enabled set, an error is reported
\* for every mapping whose destination is equal to or inside its own source
\* and a startup is scheduled for every other mapping; and while the
\* configuration is in force no startup is pending and no observer exists for
\* the source of a rejected mapping.
C8_SelfMirrorGuard ==
    /\ [](enabled =>
            \A i \in DOMAIN dirconf :
                SelfNested(dirconf[i])
                => /\ \A j \in DOMAIN jobs : jobs[j] # StartMonitorJob(dirconf[i].key)
                   /\ \A id \in DOMAIN threads : threads[id].source_dir # dirconf[i].key)
    /\ [][(\E config \in Configs : config.enabled /\ InitPlugin(config))
            => \A i \in DOMAIN dirconf' :
                  IF SelfNested(dirconf'[i])
                  THEN [type |-> "subdir", about |-> dirconf'[i].key] \in msgs'
                  ELSE \E j \in DOMAIN jobs' : jobs'[j] = StartMonitorJob(dirconf'[i].key)]_vars

-----------------------------------------------------------------------------
(* C9 *)

\* C9: once stop_service has returned, and until a configuration is applied
\* again, no observer thread is running, so that no event is delivered, no
\* job is pending and the list of observers is empty.
C9_Stopped ==
    (main.call = "stop_service" /\ main.raised = "")
    => /\ \A id \in DOMAIN threads : threads[id].st # "running"
       /\ lock = 0
       /\ jobs = <<>>
       /\ observer = <<>>

\* stop_service has returned after stopping and joining a running observer
C9_Witness == main.call = "stop_service" /\ main.raised = "" /\ main.joined > 0

-----------------------------------------------------------------------------
(* C10 *)

\* C10: a call of __handle_file by sync_all that fails does not end the walk
\* while entries of the listing or later mappings remain to be attempted.
C10_FailureContained ==
    [][\A t \in SyncThreads :
          (Materializes(t) /\ sync'[t].pc = "idle")
          => (sync[t].todo = {} /\ sync[t].i = Len(sync[t].items))]_vars

-----------------------------------------------------------------------------
(* C11 *)

\* C11: when the handling of an event ends with an exception, the exception
\* is reported on the message channel and the observer's thread stays
\* running; when it then leaves the handler it is idle and running again,
\* ready for the next event.
C11_ExceptionContained ==
    [][\A id \in DOMAIN threads :
          /\ (Handles(id) /\ threads'[id].out \notin Outcomes)
                => /\ [type |-> "event_failed", about |-> threads'[id].path] \in msgs'
                   /\ threads'[id].st = "running"
          /\ (threads[id].pc = "ran" /\ threads[id].out \notin Outcomes
                /\ id \in DOMAIN threads' /\ threads'[id] # threads[id])
                => (threads'[id].st = "running" /\ threads'[id].pc = "idle" /\ lock' = 0)]_vars

\* the handling of a Created event for an existing file has raised
C11_Witness ==
    \E id \in DOMAIN threads :
        /\ Ran(id, {"created"})
        /\ Exists(fs, threads[id].path)
        /\ threads[id].out = "AttributeError"
        /\ [type |-> "event_failed", about |-> threads[id].path] \in msgs

-----------------------------------------------------------------------------
(* C12 *)

\* the reference LinkStrategy: "Link" or "Copy" for a file path
LinkStrategy(copyModeEnabled, p) ==
    IF copyModeEnabled
    THEN (IF Lower(Suffix(Path(Str(p)))) \in MediaExts THEN "Link" ELSE "Copy")
    ELSE "Link"

\* C12: whenever __handle_file materializes a file, the entry it leaves at
\* the target path is what the reference LinkStrategy decides: a symbolic
\* link to the source file for "Link", a regular file with the content of the
\* source file for "Copy".
C12_LinkStrategy ==
    [][\A t \in SyncThreads :
          LET p == sync[t].path
              target == TargetFile(p, MappingAt(t).key, MappingAt(t).val)
          IN (Materializes(t) /\ sync'[t].pc = "walk" /\ Exists(fs, p)
                 /\ Truthy(MappingAt(t).val) /\ ~InDestination(p))
             => fs'[target] = IF LinkStrategy(copy_files, p) = "Link"
                              THEN LinkNode(p)
                              ELSE FileNode(GetSize(fs, p))]_vars

\* with copy_files set, the media file has been linked and the other file
\* has been copied
C12_Witness ==
    /\ copy_files
    /\ fs[DirX \o <<"/">> \o NameF] = LinkNode(FileAF)
    /\ fs[DirX \o <<"/">> \o NameG].k = "file"

-----------------------------------------------------------------------------
(* C13 *)

\* the sync_all jobs pending
SyncJobs(q) == {j \in DOMAIN q : q[j] = SyncAllJob}

\* C13: applying a configuration with onlyonce set schedules exactly one
\* sync_all, whatever enabled is, and persists the configuration with
\* onlyonce cleared; applying a configuration without onlyonce, the persisted
\* one included, schedules none.
C13_RunOnce ==
    [][\A config \in Configs :
          InitPlugin(config)
          => IF config.onlyonce
             THEN /\ Cardinality(SyncJobs(jobs')) = 1
                  /\ saved' = [config EXCEPT !.onlyonce = FALSE]
                  /\ ~onlyonce'
             ELSE SyncJobs(jobs') = {}]_vars

-----------------------------------------------------------------------------
(* C14 *)

\* C14: the table is not modified or replaced while an observer's thread is
\* running, and every running observer finds the mapping of its source
\* directory in the table.
C14_TableStable ==
    /\ [][dirconf' # dirconf => \A id \in DOMAIN threads : threads[id].st # "running"]_vars
    /\ [](\A id \in DOMAIN threads :
             threads[id].st = "running"
             => \E i \in DOMAIN dirconf : dirconf[i].key = threads[id].source_dir)

-----------------------------------------------------------------------------
(* C15 *)

\* the observers running for a source directory
RunningFor(source_dir) ==
    {id \in DOMAIN threads :
        threads[id].st = "running" /\ threads[id].source_dir = source_dir}

\* the source directories of the table whose mapping passes validation
ValidSources == {dirconf[i].key : i \in {k \in DOMAIN dirconf : ~SelfNested(dirconf[k])}}

\* C15: once init_plugin has returned and every startup job it scheduled has
\* run and started its observer, there is exactly one running observer for
\* each valid source directory of the table and none for any other
\* directory when enabled is set, and no running observer when it is not.
C15_OneObserverPerSource ==
    (/\ main.call = "init_plugin" /\ main.raised = ""
     /\ \A j \in DOMAIN jobs : jobs[j].func # "start_monitor"
     /\ \A id \in DOMAIN threads : threads[id].st # "unstarted")
    => \A d \in {DirA, DirB, DirX, DirY, DirAM} :
          Cardinality(RunningFor(d)) = IF enabled /\ d \in ValidSources THEN 1 ELSE 0

-----------------------------------------------------------------------------
(* C16 *)

\* C16: no entry of the table has a destination that is its source directory
\* or inside it.
C16_NoSelfNestedEntry == \A i \in DOMAIN dirconf : ~SelfNested(dirconf[i])

-----------------------------------------------------------------------------
(* C17 *)

\* the observer threads inside the with block of event_handler
InHandler == {id \in DOMAIN threads : threads[id].pc \in {"held", "ran"}}

\* C17: the lock is held exactly while one observer thread is inside the
\* with block of event_handler, whatever way the handling ends, and every
\* observer thread that waits for the lock eventually acquires it.
C17_LockReleased ==
    /\ [](InHandler = IF lock = 0 THEN {} ELSE {lock})
    /\ \A o \in 1..MaxObservers :
          (o \in DOMAIN threads /\ threads[o].pc = "waiting")
             ~> (o \in DOMAIN threads /\ threads[o].pc = "held")

\* an observer thread waits for the lock while the handling of an event by
\* another one has ended with an exception
C17_Witness ==
    \E a, b \in DOMAIN threads :
        /\ threads[a].pc = "waiting"
        /\ threads[b].pc = "ran"
        /\ threads[b].out \notin Outcomes

-----------------------------------------------------------------------------
(* C18 *)

\* C18: the handling of a Deleted event delivered for the source directory
\* S1 leaves unchanged the target of every existing source file of every
\* other mapping S2 -> D2 of the table.
C18_DeleteFrame ==
    [][\A id \in DOMAIN threads :
          (Handles(id) /\ threads'[id].kind = "deleted" /\ ~LExists(fs, threads'[id].path))
          => \A i \in DOMAIN dirconf, q \in SourceFiles :
                LET m == dirconf[i]
                IN (m.key # threads[id].source_dir /\ Truthy(m.val)
                       /\ q \in Watched(m.key) /\ Exists(fs, q))
                   => fs'[TargetFile(q, m.key, m.val)] = fs[TargetFile(q, m.key, m.val)]]_vars

-----------------------------------------------------------------------------
(* C19 *)

\* C19: once a Moved event for the new path q of a renamed source file has
\* been handled, no filter rule applying, the destination of q's source
\* directory holds an entry at the target of q and no entry at the target of
\* a path of that source directory at which no file exists any more.
C19_MoveFollowed ==
    \A id \in DOMAIN threads :
        LET q == threads[id].path
            S == threads[id].source_dir
            D == DictGet(dirconf, S)
        IN (/\ Ran(id, {"moved"}) /\ Exists(fs, q) /\ NoRule(fs, q) /\ Truthy(D)
            /\ \E p \in Watched(S) : ~LExists(fs, p))
           => /\ LExists(fs, TargetFile(q, S, D))
              /\ \A p \in Watched(S) : ~LExists(fs, p) => ~LExists(fs, TargetFile(p, S, D))

-----------------------------------------------------------------------------
(* C20 *)

\* C20: a stop_service called while the list holds an observer whose startup
\* failed, the scheduler running, ends without exception, leaves no observer
\* thread running and leaves the list empty.
C20_FailedStartupContained ==
    [][(/\ StopService
        /\ scheduler = "running"
        /\ \E i \in DOMAIN observer : threads[observer[i]].st = "unstarted")
       => /\ main'.raised = ""
          /\ \A id \in DOMAIN threads' : threads'[id].st # "running"
          /\ observer' = <<>>]_vars

====
